---- MODULE Spec2Model ----
(***************************************************************************)
(* A model of src/dashboard.py, the process-mining dashboard script.       *)
(*                                                                         *)
(* One run of the script is one behaviour: the uploaded table is the       *)
(* input, and every section of the script (timestamp conversion, trace     *)
(* building, case durations, activity timing, variants, variant filter,    *)
(* bottleneck ranking) is one action.  An exception anywhere inside the    *)
(* script's try block moves the run to the except handler (pc = "error").  *)
(*                                                                         *)
(* Time is counted in whole seconds.  Activity labels are sequences of     *)
(* characters, so that joining a variant with the display separator and    *)
(* splitting it again is computed on the text, as Python does.             *)
(***************************************************************************)
EXTENDS Integers, Sequences, FiniteSets, TLC

VARIABLES
    pc,               \* the section of the script that runs next
    uploaded,         \* the table read from the uploaded file (never changed)
    perf_result,      \* what pm4py.discover_performance_dfg will hand back as perf_dfg[1]
    df,               \* the data frame variable df
    event_log,        \* event_log
    case_durations,   \* case_durations
    avg_duration,     \* avg_duration (assigned at line 71 and again at line 165)
    metrics,          \* the three st.metric texts of lines 74-76
    activity_counts,  \* activity_counts
    activity_timing,  \* activity_timing
    activity_df,      \* activity_df
    variant_stats,    \* variant_stats
    variants_df,      \* variants_df
    selected_variant, \* selected_variant
    filtered_log,     \* filtered_log
    mean_times,       \* mean_times
    performance_data, \* performance_data
    perf_df,          \* perf_df
    headline,         \* the rows written by the loop over perf_df.head(5)
    status,           \* the closing message: st.warning / st.success / st.error
    writers           \* for each script variable, the analyzers that assigned it

vars == <<pc, uploaded, perf_result, df, event_log, case_durations, avg_duration,
          metrics, activity_counts, activity_timing, activity_df, variant_stats,
          variants_df, selected_variant, filtered_log, mean_times,
          performance_data, perf_df, headline, status, writers>>

(***************************************************************************)
(* Bounds of the model.                                                    *)
(***************************************************************************)
MaxRows == 3

MaxCaseRows == 2

MaxTime == 2

TimeStep == 1800

MaxEntries == 3

CaseIds == {1, 2}

\* the timestamps a cell of the uploaded table may hold, in seconds
Times == {k * TimeStep : k \in 0..MaxTime}

(***************************************************************************)
(* Text.  Arrow stands for the character U+2192 of the separator ' → '.    *)
(***************************************************************************)
Arrow == ">"

Separator == <<" ", Arrow, " ">>

LabelA == <<"a">>

LabelB == <<"b">>

LabelAB == <<"a", " ", Arrow, " ", "b">>

\* the labels of the tables with raw timestamp cells, and of the clean tables
RawLabels == {LabelA, LabelAB}

LogLabels == {LabelA, LabelB}

\* s[from..to] as a sequence (empty when from > to)
Slice(s, from, to) == [i \in 1..(to - from + 1) |-> s[from + i - 1]]

\* sep.join(parts)
RECURSIVE Join(_, _)
Join(parts, sep) ==
    IF Len(parts) = 0 THEN <<>>
    ELSE IF Len(parts) = 1 THEN parts[1]
    ELSE parts[1] \o sep \o Join(Tail(parts), sep)

\* whether sep occurs in s at position i
OccursAt(s, sep, i) ==
    /\ i + Len(sep) - 1 <= Len(s)
    /\ \A k \in 1..Len(sep) : s[i + k - 1] = sep[k]

\* s.split(sep): cut at every occurrence of sep, scanning from the left
RECURSIVE SplitFrom(_, _, _, _)
SplitFrom(s, sep, start, i) ==
    IF i > Len(s) THEN <<Slice(s, start, Len(s))>>
    ELSE IF OccursAt(s, sep, i)
         THEN <<Slice(s, start, i - 1)>> \o SplitFrom(s, sep, i + Len(sep), i + Len(sep))
         ELSE SplitFrom(s, sep, start, i + 1)

Split(s, sep) == SplitFrom(s, sep, 1, 1)

(***************************************************************************)
(* Sequences.                                                              *)
(***************************************************************************)
RECURSIVE SumSeq(_)
SumSeq(s) == IF Len(s) = 0 THEN 0 ELSE Head(s) + SumSeq(Tail(s))

MinSeq(s) == CHOOSE x \in {s[i] : i \in 1..Len(s)} : \A j \in 1..Len(s) : x <= s[j]

MaxSeq(s) == CHOOSE x \in {s[i] : i \in 1..Len(s)} : \A j \in 1..Len(s) : x >= s[j]

RECURSIVE Flatten(_)
Flatten(ss) == IF Len(ss) = 0 THEN <<>> ELSE Head(ss) \o Flatten(Tail(ss))

\* s in ascending order of keys (keys[i] is the key of s[i]); elements with equal
\* keys stay in the order they have in s
StableSort(s, keys) ==
    [k \in 1..Len(s) |->
        s[CHOOSE i \in 1..Len(s) :
            Cardinality({j \in 1..Len(s) :
                            keys[j] < keys[i] \/ (keys[j] = keys[i] /\ j < i)}) = k - 1]]

\* the distinct values of s in the order of their first occurrence
RECURSIVE Distinct(_)
Distinct(s) ==
    IF Len(s) = 0 THEN <<>>
    ELSE LET front == Distinct(Slice(s, 1, Len(s) - 1))
             last == s[Len(s)]
         IN IF \E i \in 1..Len(front) : front[i] = last THEN front
            ELSE Append(front, last)

(***************************************************************************)
(* round(x, 2) of Python for x = num / (36 * den) hundredths, num >= 0:    *)
(* the result in hundredths.  A value halfway between two hundredths is    *)
(* decided by the binary representation of the float; HalfwayUp lists the  *)
(* k for which CPython rounds (36 k + 18) / 3600 up to (k + 1) / 100.      *)
(***************************************************************************)
HalfwayUp == {0, 2, 3, 5, 6, 8, 9, 11, 13, 16, 19, 22, 25, 26, 27}

\* round(num / den) to the nearest integer, an exact half going to the even one
RoundRatio(num, den) ==
    LET q == num \div den
        r == num % den
    IN IF 2 * r < den THEN q
       ELSE IF 2 * r > den THEN q + 1
       ELSE IF q % 2 = 0 THEN q ELSE q + 1

RoundHundredths(num, den) ==
    LET q == num \div den
        r == num % den
    IN IF 2 * r < den THEN q
       ELSE IF 2 * r > den THEN q + 1
       ELSE IF q \in HalfwayUp THEN q + 1 ELSE q

\* round(seconds / 3600, 2) for seconds = num / den, in hundredths of an hour
RoundHours(num, den) == RoundHundredths(num, 36 * den)

(***************************************************************************)
(* Lines 32-34: pd.to_datetime on the timestamp column.  A cell holds a    *)
(* time, nothing (a missing value) or text that is no timestamp.  Missing  *)
(* values become NaT; text that cannot be parsed raises.                   *)
(***************************************************************************)
RawTimes ==
    [kind : {"time"}, t : Times] \cup {[kind |-> "missing", t |-> 0],
                                            [kind |-> "text", t |-> 0]}

RawRows == [case : CaseIds, act : RawLabels, ts : RawTimes]

Unparseable(d) == \E i \in 1..Len(d) : d[i].ts.kind = "text"

ToDatetime(d) ==
    [i \in 1..Len(d) |->
        [case |-> d[i].case, act |-> d[i].act,
         ts |-> [nat |-> d[i].ts.kind = "missing", t |-> d[i].ts.t]]]

(***************************************************************************)
(* Lines 43-53: the trace builder.                                         *)
(*   pm4py.format_dataframe drops the rows with a missing case id,         *)
(*   activity or timestamp and sorts by (case id, timestamp, row index);   *)
(*   pm4py.filter_case_size(df, 2, None) keeps the rows of the cases with  *)
(*   at least 2 rows; the conversion makes one trace per case id, its      *)
(*   events in row order.                                                  *)
(***************************************************************************)
DropNa(d) == SelectSeq(d, LAMBDA r : ~r.ts.nat)

\* by case id, then timestamp, then row index
SortRows(d) ==
    LET by_time == StableSort(d, [i \in 1..Len(d) |-> d[i].ts.t])
    IN StableSort(by_time, [i \in 1..Len(d) |-> by_time[i].case])

FormatDataframe(d) == SortRows(DropNa(d))

CaseSize(d, c) == Cardinality({i \in 1..Len(d) : d[i].case = c})

MinCaseSize == 2

\* a filter that keeps the cases one row short of the minimum
FilterCaseSizeOffByOne(d, min_size) ==
    SelectSeq(d, LAMBDA r : CaseSize(d, r.case) >= min_size - 1)

FilterCaseSize(d, min_size) == SelectSeq(d, LAMBDA r : CaseSize(d, r.case) >= min_size)

TraceOf(d, c) ==
    [case |-> c,
     events |-> LET rows == SelectSeq(d, LAMBDA r : r.case = c)
                IN [i \in 1..Len(rows) |-> [act |-> rows[i].act, ts |-> rows[i].ts.t]]]

ToEventLog(d) ==
    LET cases == Distinct([i \in 1..Len(d) |-> d[i].case])
    IN [k \in 1..Len(cases) |-> TraceOf(d, cases[k])]

(***************************************************************************)
(* Lines 69-76: case duration statistics.                                  *)
(*   case_statistics.get_all_case_durations gives, sorted, the time from   *)
(*   the first to the last event of every trace.  A metric is the text     *)
(*   "<x> hours" (x in hundredths here) or the text "N/A".                 *)
(***************************************************************************)
TraceSpan(trace) == trace.events[Len(trace.events)].ts - trace.events[1].ts

GetAllCaseDurations(log) ==
    LET spans == [k \in 1..Len(log) |-> TraceSpan(log[k])]
    IN StableSort(spans, spans)

\* sum(xs) / len(xs) if xs else 0, as the fraction num / den
MeanOrZero(xs) ==
    IF Len(xs) > 0 THEN [num |-> SumSeq(xs), den |-> Len(xs)] ELSE [num |-> 0, den |-> 1]

HoursText(h100) == [text |-> "hours", h100 |-> h100]

NotAvailable == [text |-> "N/A", h100 |-> 0]

AvgMetric(avg) == HoursText(RoundHours(avg.num, avg.den))

MinMetric(durs) ==
    IF Len(durs) > 0 THEN HoursText(RoundHours(MinSeq(durs), 1)) ELSE NotAvailable

MaxMetric(durs) ==
    IF Len(durs) > 0 THEN HoursText(RoundHours(MaxSeq(durs), 1)) ELSE NotAvailable

CaseDurationMetrics(durs) ==
    [avg |-> AvgMetric(MeanOrZero(durs)), min |-> MinMetric(durs), max |-> MaxMetric(durs)]

(***************************************************************************)
(* Lines 84-123: activity frequency and timing.                            *)
(***************************************************************************)
AllEvents(log) == Flatten([k \in 1..Len(log) |-> log[k].events])

\* pm4py.get_event_attribute_values(event_log, "concept:name")
ActivityKeys(log) == LET evs == AllEvents(log) IN Distinct([i \in 1..Len(evs) |-> evs[i].act])

GetEventAttributeValues(log) ==
    LET evs == AllEvents(log)
    IN [a \in {evs[i].act : i \in 1..Len(evs)} |->
            Cardinality({i \in 1..Len(evs) : evs[i].act = a})]

\* line 94: sorted(trace, key=lambda x: x['time:timestamp'])
SortedEvents(trace) ==
    StableSort(trace.events, [i \in 1..Len(trace.events) |-> trace.events[i].ts])

NoEvent == [none |-> TRUE, ts |-> 0]

\* a loop that carries previous_event over from the trace before
KeepPrevious(prev) == prev

\* line 91: previous_event = None at the start of every trace
PreviousAtTraceStart(prev) == NoEvent

\* lines 96-106: the loop over the sorted events of one trace
RECURSIVE WalkEvents(_, _, _, _)
WalkEvents(timing, evs, i, prev) ==
    IF i > Len(evs) THEN [timing |-> timing, prev |-> prev]
    ELSE LET a == evs[i].act
             t1 == IF a \in DOMAIN timing THEN timing ELSE timing @@ (a :> <<>>)
             t2 == IF ~prev.none
                   THEN [t1 EXCEPT ![a] = Append(@, evs[i].ts - prev.ts)]
                   ELSE t1
         IN WalkEvents(t2, evs, i + 1, [none |-> FALSE, ts |-> evs[i].ts])

\* lines 90-106: the loop over the traces
RECURSIVE WalkTraces(_, _, _, _)
WalkTraces(timing, log, k, prev) ==
    IF k > Len(log) THEN timing
    ELSE LET r == WalkEvents(timing, SortedEvents(log[k]), 1, PreviousAtTraceStart(prev))
         IN WalkTraces(r.timing, log, k + 1, r.prev)

ActivityTimingOf(log) == WalkTraces(<<>>, log, 1, NoEvent)

\* lines 109-121: one row per key of activity_counts
ActivityRow(a, counts, timing, total) ==
    LET durations == timing[a]
        n == Len(durations)
    IN [Activity |-> a,
        Count |-> counts[a],
        Percentage |-> RoundRatio(counts[a] * 10000, total),
        MinHours |-> IF n > 0 THEN RoundHours(MinSeq(durations), 1) ELSE 0,
        AvgHours |-> IF n > 0 THEN RoundHours(SumSeq(durations), n) ELSE 0,
        MaxHours |-> IF n > 0 THEN RoundHours(MaxSeq(durations), 1) ELSE 0,
        SampleSize |-> n]

ActivityData(log, counts, timing) ==
    LET keys == ActivityKeys(log)
        total == SumSeq([i \in 1..Len(keys) |-> counts[keys[i]]])
    IN [i \in 1..Len(keys) |-> ActivityRow(keys[i], counts, timing, total)]

(***************************************************************************)
(* pd.DataFrame(rows).sort_values(column, ascending=False).  The frame of  *)
(* an empty list of rows has no columns, and sorting it by a column raises *)
(* KeyError.  The default sort of pandas is not stable, so rows with equal *)
(* keys may come out in any order: the possible results are all the        *)
(* orders of the rows in which the key never increases.                    *)
(***************************************************************************)
RowOrders(n) ==
    {p \in [1..n -> 1..n] : \A i, j \in 1..n : i # j => p[i] # p[j]}

SortValuesRaises(rows) == Len(rows) = 0

\* keys[i] is the value of rows[i] in the column sorted by
SortValuesDescending(rows, keys) ==
    {[k \in 1..Len(rows) |-> rows[p[k]]] :
        p \in {q \in RowOrders(Len(rows)) :
                  \A i \in 1..(Len(rows) - 1) : keys[q[i]] >= keys[q[i + 1]]}}

\* the values of the columns sorted by at lines 123 and 172, and at line 221
CountColumn(rows) == [i \in 1..Len(rows) |-> rows[i].Count]

AvgHoursColumn(rows) == [i \in 1..Len(rows) |-> rows[i].AvgHours]

(***************************************************************************)
(* Lines 151-172: process variants.                                        *)
(***************************************************************************)
VariantKey(trace) == [i \in 1..Len(trace.events) |-> trace.events[i].act]

\* the keys of pm4py.get_variants_as_tuples(event_log), in dictionary order
VariantKeys(log) == Distinct([k \in 1..Len(log) |-> VariantKey(log[k])])

\* the traces the dictionary holds under a key
VariantTraces(log, variant) == SelectSeq(log, LAMBDA tr : VariantKey(tr) = variant)

\* lines 155-163: the durations of the traces with more than one timestamped event
VariantDurations(traces) ==
    LET qualifying == SelectSeq(traces, LAMBDA tr : Len(tr.events) > 1)
    IN [k \in 1..Len(qualifying) |->
            qualifying[k].events[Len(qualifying[k].events)].ts - qualifying[k].events[1].ts]

\* an average that is never divided by the number of durations
VariantSumDuration(traces) ==
    [num |-> SumSeq(VariantDurations(traces)), den |-> 1]

\* line 165
VariantAvgDuration(traces) == MeanOrZero(VariantDurations(traces))

\* line 168
VariantCount(traces) == Len(traces)

\* lines 166-170
VariantRow(variant, traces) ==
    LET avg == VariantAvgDuration(traces)
    IN [Variant |-> Join(variant, Separator),
        Count |-> VariantCount(traces),
        AvgHours |-> RoundHours(avg.num, avg.den)]

VariantStats(log) ==
    LET keys == VariantKeys(log)
    IN [k \in 1..Len(keys) |-> VariantRow(keys[k], VariantTraces(log, keys[k]))]

\* avg_duration after the loop: the value of its last iteration
LastVariantAvg(log, before) ==
    LET keys == VariantKeys(log)
    IN IF Len(keys) = 0 THEN before
       ELSE VariantAvgDuration(VariantTraces(log, keys[Len(keys)]))

(***************************************************************************)
(* Lines 183-186: the variant filter.                                      *)
(***************************************************************************)
\* tuple(selected_variant.split(' → '))
SelectedKey(selected) == Split(selected, Separator)

\* pm4py.filter_variants(event_log, [key])
FilterVariants(log, keys) == SelectSeq(log, LAMBDA tr : VariantKey(tr) \in keys)

(***************************************************************************)
(* Lines 200-233: bottleneck analysis.  mean_times is a dictionary, kept   *)
(* here as the sequence of its entries in dictionary order; an entry's     *)
(* value is a number, a dictionary (with or without the key 'mean') or     *)
(* something that is no number.                                            *)
(***************************************************************************)
Number(v) == [shape |-> "number", has_mean |-> FALSE, v |-> v]

DictWithMean(v) == [shape |-> "dict", has_mean |-> TRUE, v |-> v]

DictWithoutMean == [shape |-> "dict", has_mean |-> FALSE, v |-> 0]

NotNumeric == [shape |-> "text", has_mean |-> FALSE, v |-> 0]

\* lines 206-209
AvgTime(time_info) ==
    IF time_info.shape = "dict"
    THEN (IF time_info.has_mean THEN Number(time_info.v) ELSE Number(0))
    ELSE time_info

\* line 212
Retained(avg_time) == avg_time.shape = "number" /\ avg_time.v > 0

\* lines 213-217
PerformanceRow(key, avg_time) ==
    [From |-> key[1], To |-> key[2], AvgHours |-> RoundHours(avg_time.v, 1)]

\* lines 203-217
PerformanceData(mt) ==
    LET kept == SelectSeq(mt, LAMBDA e : Retained(AvgTime(e.info)))
    IN [i \in 1..Len(kept) |-> PerformanceRow(kept[i].key, AvgTime(kept[i].info))]

TopK == 5

\* line 230: perf_df.head(5)
HeadRows(rows, k) == Slice(rows, 1, IF Len(rows) < k THEN Len(rows) ELSE k)

NoDataWarning == "warning: No valid performance data available for bottleneck analysis"

SuccessMessage == "success: All process mining metrics generated successfully!"

ErrorMessage == "error"

(***************************************************************************)
(* The script variables each analyzer assigns.                             *)
(***************************************************************************)
CaseDurationAssigns == {"case_durations", "avg_duration", "col1", "col2", "col3"}

ActivityTimingAssigns ==
    {"activity_counts", "activity_timing", "trace", "previous_event", "sorted_events",
     "event", "activity", "duration", "durations", "activity_data", "activity_df", "csv"}

VariantAssigns ==
    {"variants", "variant_stats", "variant", "traces", "variant_durations", "trace",
     "events", "start_time", "end_time", "duration", "avg_duration", "variants_df",
     "selected_variant", "filtered_log"}

BottleneckAssigns ==
    {"perf_dfg", "mean_times", "performance_data", "key", "time_info", "avg_time",
     "perf_df", "row"}

ScriptVariables ==
    CaseDurationAssigns \cup ActivityTimingAssigns \cup VariantAssigns \cup BottleneckAssigns

Assigned(w, analyzer, names) ==
    [v \in ScriptVariables |-> IF v \in names THEN w[v] \cup {analyzer} ELSE w[v]]

(***************************************************************************)
(* The inputs.                                                             *)
(***************************************************************************)
\* tables of at most n rows whose timestamp cells may be missing or unparseable
RawTables(n) == UNION {[1..k -> RawRows] : k \in 0..n}

\* clean tables: for every case at most n rows, each with a timestamp
CaseRows(c, n) ==
    UNION {[1..k -> [case : {c}, act : LogLabels, ts : [kind : {"time"}, t : Times]]] :
                k \in 0..n}

\* the second case has at most as many rows as the smallest case that is kept
CleanTables(n) == {r1 \o r2 : r1 \in CaseRows(1, n), r2 \in CaseRows(2, MinCaseSize)}

At(t) == [kind |-> "time", t |-> t]

\* case 1 = [(a, 0), (b, TimeStep)], case 2 = [(a, 0), (b, 2 TimeStep)]
SampleTable ==
    <<[case |-> 1, act |-> LabelA, ts |-> At(0)],
      [case |-> 1, act |-> LabelB, ts |-> At(TimeStep)],
      [case |-> 2, act |-> LabelA, ts |-> At(0)],
      [case |-> 2, act |-> LabelB, ts |-> At(2 * TimeStep)]>>

Transitions == {<<LabelA, LabelB>>, <<LabelB, LabelA>>, <<LabelA, LabelA>>}

TimeInfos ==
    {Number(-5), Number(0), Number(10), Number(17), Number(300),
     DictWithMean(300), DictWithoutMean, NotNumeric}

\* dictionaries of at most n entries: no key twice
PerfResults(n) ==
    UNION {{m \in [1..k -> [key : Transitions, info : TimeInfos]] :
                \A i, j \in 1..k : i # j => m[i].key # m[j].key} : k \in 0..n}

\* {(a, b): -5, (b, a): 0, (a, a): 300}
SamplePerfResult ==
    <<[key |-> <<LabelA, LabelB>>, info |-> Number(-5)],
      [key |-> <<LabelB, LabelA>>, info |-> Number(0)],
      [key |-> <<LabelA, LabelA>>, info |-> Number(300)]>>

Unset == [text |-> "", h100 |-> 0]

\* line 19: df holds the uploaded table; nothing else is assigned yet
Started ==
    /\ pc = "convert"
    /\ df = uploaded
    /\ event_log = <<>>
    /\ case_durations = <<>>
    /\ avg_duration = [num |-> 0, den |-> 1]
    /\ metrics = [avg |-> Unset, min |-> Unset, max |-> Unset]
    /\ activity_counts = <<>>
    /\ activity_timing = <<>>
    /\ activity_df = <<>>
    /\ variant_stats = <<>>
    /\ variants_df = <<>>
    /\ selected_variant = <<>>
    /\ filtered_log = <<>>
    /\ mean_times = <<>>
    /\ performance_data = <<>>
    /\ perf_df = <<>>
    /\ headline = <<>>
    /\ status = <<>>
    /\ writers = [v \in ScriptVariables |-> {}]

Init ==
    /\ uploaded \in RawTables(MaxRows)
    /\ perf_result = SamplePerfResult
    /\ Started

InitLog ==
    /\ uploaded \in CleanTables(MaxCaseRows)
    /\ perf_result = SamplePerfResult
    /\ Started

InitRanker ==
    /\ uploaded = SampleTable
    /\ perf_result \in PerfResults(MaxEntries)
    /\ Started

(***************************************************************************)
(* The sections of the script.                                             *)
(***************************************************************************)
\* lines 237-242: the except handler
Raise ==
    /\ pc' = "error"
    /\ status' = Append(status, ErrorMessage)

\* lines 32-41
ConvertTimestamps ==
    /\ pc = "convert"
    /\ IF Unparseable(df)
       THEN Raise /\ UNCHANGED df
       ELSE /\ df' = ToDatetime(df)
            /\ pc' = "build"
            /\ UNCHANGED status
    /\ UNCHANGED <<uploaded, perf_result, event_log, case_durations, avg_duration,
                   metrics, activity_counts, activity_timing, activity_df,
                   variant_stats, variants_df, selected_variant, filtered_log,
                   mean_times, performance_data, perf_df, headline, writers>>

\* lines 43-62 (the process model discovered and drawn at lines 56-62, and again at
\* lines 188-192, is kept in no variable that an analyzer reads)
TraceBuilder ==
    /\ pc = "build"
    /\ df' = FilterCaseSize(FormatDataframe(df), MinCaseSize)
    /\ event_log' = ToEventLog(df')
    /\ pc' = "case_duration"
    /\ UNCHANGED <<uploaded, perf_result, case_durations, avg_duration,
                   metrics, activity_counts, activity_timing, activity_df,
                   variant_stats, variants_df, selected_variant, filtered_log,
                   mean_times, performance_data, perf_df, headline, status, writers>>

\* lines 67-76
CaseDuration ==
    /\ pc = "case_duration"
    /\ case_durations' = GetAllCaseDurations(event_log)
    /\ avg_duration' = MeanOrZero(case_durations')
    /\ metrics' = [avg |-> AvgMetric(avg_duration'),
                   min |-> MinMetric(case_durations'),
                   max |-> MaxMetric(case_durations')]
    /\ writers' = Assigned(writers, "case_duration", CaseDurationAssigns)
    /\ pc' = "activity"
    /\ UNCHANGED <<uploaded, perf_result, df, event_log, activity_counts,
                   activity_timing, activity_df, variant_stats, variants_df,
                   selected_variant, filtered_log, mean_times, performance_data,
                   perf_df, headline, status>>

\* lines 81-143
ActivityTiming ==
    /\ pc = "activity"
    /\ activity_counts' = GetEventAttributeValues(event_log)
    /\ activity_timing' = ActivityTimingOf(event_log)
    /\ LET activity_data == ActivityData(event_log, activity_counts', activity_timing')
       IN IF SortValuesRaises(activity_data)
          THEN /\ Raise
               /\ UNCHANGED activity_df
               /\ writers' = Assigned(writers, "activity_timing",
                                      {"activity_counts", "activity_timing", "activity_data"})
          ELSE /\ activity_df' \in SortValuesDescending(activity_data, CountColumn(activity_data))
               /\ writers' = Assigned(writers, "activity_timing", ActivityTimingAssigns)
               /\ pc' = "variants"
               /\ UNCHANGED status
    /\ UNCHANGED <<uploaded, perf_result, df, event_log, case_durations, avg_duration,
                   metrics, variant_stats, variants_df, selected_variant, filtered_log,
                   mean_times, performance_data, perf_df, headline>>

\* lines 148-175
VariantAnalysis ==
    /\ pc = "variants"
    /\ variant_stats' = VariantStats(event_log)
    /\ avg_duration' = LastVariantAvg(event_log, avg_duration)
    /\ IF SortValuesRaises(variant_stats')
       THEN /\ Raise
            /\ UNCHANGED variants_df
            /\ writers' = Assigned(writers, "variant", {"variants", "variant_stats"})
       ELSE /\ variants_df' \in SortValuesDescending(variant_stats', CountColumn(variant_stats'))
            /\ writers' = Assigned(writers, "variant",
                                   VariantAssigns \ {"selected_variant", "filtered_log"})
            /\ pc' = "variant_filter"
            /\ UNCHANGED status
    /\ UNCHANGED <<uploaded, perf_result, df, event_log, case_durations, metrics,
                   activity_counts, activity_timing, activity_df, selected_variant,
                   filtered_log, mean_times, performance_data, perf_df, headline>>

\* lines 180-192: the user picks one of the 'Variant' texts of variants_df
VariantFilter ==
    /\ pc = "variant_filter"
    /\ \E i \in 1..Len(variants_df) :
          /\ selected_variant' = variants_df[i].Variant
          /\ filtered_log' = FilterVariants(event_log, {SelectedKey(selected_variant')})
    /\ writers' = Assigned(writers, "variant", {"selected_variant", "filtered_log"})
    /\ pc' = "bottleneck"
    /\ UNCHANGED <<uploaded, perf_result, df, event_log, case_durations, avg_duration,
                   metrics, activity_counts, activity_timing, activity_df,
                   variant_stats, variants_df, mean_times, performance_data, perf_df,
                   headline, status>>

\* lines 197-235
Bottleneck ==
    /\ pc = "bottleneck"
    /\ mean_times' = perf_result
    /\ performance_data' = PerformanceData(mean_times')
    /\ IF Len(performance_data') > 0
       THEN /\ perf_df' \in SortValuesDescending(performance_data', AvgHoursColumn(performance_data'))
            /\ headline' = HeadRows(perf_df', TopK)
            /\ status' = Append(status, SuccessMessage)
            /\ writers' = Assigned(writers, "bottleneck", BottleneckAssigns)
       ELSE /\ UNCHANGED <<perf_df, headline>>
            /\ status' = status \o <<NoDataWarning, SuccessMessage>>
            /\ writers' = Assigned(writers, "bottleneck",
                                   BottleneckAssigns \ {"perf_df", "row"})
    /\ pc' = "done"
    /\ UNCHANGED <<uploaded, perf_result, df, event_log, case_durations, avg_duration,
                   metrics, activity_counts, activity_timing, activity_df,
                   variant_stats, variants_df, selected_variant, filtered_log>>

Next ==
    \/ ConvertTimestamps
    \/ TraceBuilder
    \/ CaseDuration
    \/ ActivityTiming
    \/ VariantAnalysis
    \/ VariantFilter
    \/ Bottleneck

(***************************************************************************)
(* The runs of the script: on every table whose timestamp cells may be     *)
(* missing or unparseable (Spec), on every clean table of two cases        *)
(* (SpecLog), and on one table with every result the performance           *)
(* discovery may hand to the bottleneck section (SpecRanker).              *)
(***************************************************************************)
Spec == Init /\ [][Next]_vars

SpecLog == InitLog /\ [][Next]_vars

SpecRanker == InitRanker /\ [][Next]_vars

(***************************************************************************)
(* Vocabulary of the properties.                                           *)
(***************************************************************************)
\* the analyzer has assigned at least one of its variables
Ran(analyzer) == \E v \in ScriptVariables : analyzer \in writers[v]

TraceBuilderDone == pc \notin {"convert", "build"} /\ (pc = "error" => Ran("case_duration"))

UploadedCaseSize(c) == Cardinality({i \in 1..Len(uploaded) : uploaded[i].case = c})

LabelsOf(log) == {AllEvents(log)[i].act : i \in 1..Len(AllEvents(log))}

\* the keys (activity-label sequences) of the traces of the event log
KeysOf(log) == {VariantKey(log[k]) : k \in 1..Len(log)}

TracesWithKey(log, key) == {k \in 1..Len(log) : VariantKey(log[k]) = key}

\* whether the fractions a and b are the same number
SameFraction(a, b) == a.num * b.den = b.num * a.den

(***************************************************************************)
(* C1.  After the trace builder, every trace of the event log has at least *)
(* 2 events, in non-decreasing timestamp order; a case with exactly 1      *)
(* uploaded record is in no trace, and the analyzers count only the events *)
(* and traces of the event log.                                            *)
(***************************************************************************)
C1_TracesSortedAndSized ==
    TraceBuilderDone =>
        /\ \A k \in 1..Len(event_log) :
              /\ Len(event_log[k].events) >= 2
              /\ \A i \in 1..(Len(event_log[k].events) - 1) :
                    event_log[k].events[i].ts <= event_log[k].events[i + 1].ts
        /\ \A c \in CaseIds :
              UploadedCaseSize(c) = 1 => \A k \in 1..Len(event_log) : event_log[k].case # c
        /\ Ran("case_duration") => Len(case_durations) = Len(event_log)
        /\ Ran("activity_timing") =>
              /\ DOMAIN activity_counts = LabelsOf(event_log)
              /\ \A a \in DOMAIN activity_counts :
                    activity_counts[a] =
                        Cardinality({i \in 1..Len(AllEvents(event_log)) :
                                        AllEvents(event_log)[i].act = a})
        /\ Ran("variant") =>
              SumSeq([k \in 1..Len(variant_stats) |-> variant_stats[k].Count]) = Len(event_log)

\* a trace was built from records uploaded out of time order, beside a case of 1 record
C1_Witness ==
    /\ pc = "done"
    /\ Len(event_log) = 1
    /\ \E c \in CaseIds : UploadedCaseSize(c) = 1
    /\ \E i, j \in 1..Len(uploaded) :
          /\ i < j
          /\ uploaded[i].case = uploaded[j].case
          /\ uploaded[i].case = event_log[1].case
          /\ uploaded[i].ts.t > uploaded[j].ts.t

(***************************************************************************)
(* C2.  After the activity timing loop, the samples of every activity are, *)
(* in trace-walk order, the time from the preceding event of the same      *)
(* trace for each of its events that is not first in its trace; so their   *)
(* number is the activity's events minus the traces it opens.              *)
(***************************************************************************)
\* for every event that is not first in its trace: its label and the time since
\* the event before it, trace after trace
Steps(log) ==
    Flatten([k \in 1..Len(log) |->
                [i \in 1..(Len(log[k].events) - 1) |->
                    [act |-> log[k].events[i + 1].act,
                     delta |-> log[k].events[i + 1].ts - log[k].events[i].ts]]])

ExpectedSamples(log, a) ==
    LET mine == SelectSeq(Steps(log), LAMBDA st : st.act = a)
    IN [i \in 1..Len(mine) |-> mine[i].delta]

OpenedBy(log, a) == Cardinality({k \in 1..Len(log) : log[k].events[1].act = a})

C3_FilterReturnsVariant ==
    (pc \in {"bottleneck", "done"}) =>
        \A key \in KeysOf(event_log) :
            Join(key, Separator) = selected_variant =>
                filtered_log = SelectSeq(event_log, LAMBDA tr : VariantKey(tr) = key)

(***************************************************************************)
(* C4.  For an empty event log the three case duration metrics are the     *)
(* "N/A" text, and each differs from the metric of a log whose durations   *)
(* are all zero.                                                           *)
(***************************************************************************)
C4_EmptyLogSentinel ==
    (Ran("case_duration") /\ event_log = <<>>) =>
        /\ metrics.avg = NotAvailable
        /\ metrics.min = NotAvailable
        /\ metrics.max = NotAvailable
        /\ metrics.avg # CaseDurationMetrics(<<0>>).avg
        /\ metrics.min # CaseDurationMetrics(<<0>>).min
        /\ metrics.max # CaseDurationMetrics(<<0>>).max

(***************************************************************************)
(* C5.  A run whose event log is empty after the minimum-size filter does  *)
(* not end in the except handler.                                          *)
(***************************************************************************)
C5_EmptyLogNoError ==
    (TraceBuilderDone /\ event_log = <<>>) => pc # "error"

(***************************************************************************)
(* C6.  The ranked table is in non-increasing order of mean time in        *)
(* seconds, rows of equal mean time in ascending order of (from, to), and  *)
(* the headline is its first 5 rows.                                       *)
(***************************************************************************)
CodePoint(c) ==
    CASE c = " " -> 32
      [] c = "a" -> 97
      [] c = "b" -> 98
      [] OTHER -> 8594

\* s < t as Python compares strings
TextLess(s, t) ==
    \E n \in 0..Len(s) :
        /\ n <= Len(t)
        /\ \A i \in 1..n : s[i] = t[i]
        /\ \/ n = Len(s) /\ n < Len(t)
           \/ n < Len(s) /\ n < Len(t) /\ CodePoint(s[n + 1]) < CodePoint(t[n + 1])

KeyLess(r1, r2) ==
    \/ TextLess(r1.From, r2.From)
    \/ r1.From = r2.From /\ TextLess(r1.To, r2.To)

\* the mean time, in seconds, of the entry of mean_times a row was made from
SecondsOf(row) ==
    LET e == CHOOSE e \in {mean_times[i] : i \in 1..Len(mean_times)} :
                 e.key = <<row.From, row.To>>
    IN AvgTime(e.info).v

C6_RankedBySeconds ==
    (pc = "done" /\ Len(performance_data) > 0) =>
        /\ \A i \in 1..(Len(perf_df) - 1) :
              \/ SecondsOf(perf_df[i]) > SecondsOf(perf_df[i + 1])
              \/ /\ SecondsOf(perf_df[i]) = SecondsOf(perf_df[i + 1])
                 /\ KeyLess(perf_df[i], perf_df[i + 1])
        /\ headline = [i \in 1..(IF Len(perf_df) < TopK THEN Len(perf_df) ELSE TopK) |->
                          perf_df[i]]

(***************************************************************************)
(* C7.  The ranker keeps exactly the entries whose mean time is a number   *)
(* greater than 0, never fails on the others, every row it keeps reports a *)
(* mean time greater than 0, and with nothing kept the outcome is the      *)
(* 'no valid performance data' warning, no table and no error.             *)
(***************************************************************************)
IsPositiveNumber(info) ==
    \/ info.shape = "number" /\ info.v > 0
    \/ info.shape = "dict" /\ info.has_mean /\ info.v > 0

C7_KeepsPositiveOnly ==
    (pc = "done") =>
        /\ {<<performance_data[i].From, performance_data[i].To>> :
                i \in 1..Len(performance_data)}
             = {mean_times[i].key : i \in {j \in 1..Len(mean_times) :
                                              IsPositiveNumber(mean_times[j].info)}}
        /\ \A i \in 1..Len(performance_data) : performance_data[i].AvgHours > 0
        /\ \A i \in 1..Len(status) : status[i] # ErrorMessage
        /\ (Len(performance_data) = 0) =>
              /\ perf_df = <<>>
              /\ \E i \in 1..Len(status) : status[i] = NoDataWarning

(***************************************************************************)
(* C8.  Every variant is reported once, with the number of traces of its   *)
(* label sequence and the mean of their spans (last minus first            *)
(* timestamp); avg_duration is that mean for the variant handled last; the *)
(* counts add up to the number of traces.                                  *)
(***************************************************************************)
SpanSum(log, key) ==
    LET mine == SelectSeq(log, LAMBDA tr : VariantKey(tr) = key /\ Len(tr.events) >= 2)
    IN SumSeq([k \in 1..Len(mine) |-> TraceSpan(mine[k])])

ExpectedMean(log, key) ==
    LET n == Cardinality({k \in TracesWithKey(log, key) : Len(log[k].events) >= 2})
    IN IF n = 0 THEN [num |-> 0, den |-> 1] ELSE [num |-> SpanSum(log, key), den |-> n]

C9_NoSharedVariable ==
    \A v \in ScriptVariables : Cardinality(writers[v]) <= 1

(***************************************************************************)
(* C10.  A record without a usable timestamp (a missing value or text that *)
(* is no timestamp) stops the run before any analyzer produces output, and *)
(* no trace is built from the other records of its case.                   *)
(***************************************************************************)
Unusable(row) == row.ts.kind # "time"

C10_UnusableTimestampAborts ==
    \A i \in 1..Len(uploaded) :
        Unusable(uploaded[i]) =>
            /\ \A k \in 1..Len(event_log) : event_log[k].case # uploaded[i].case
            /\ \A a \in {"case_duration", "activity_timing", "variant", "bottleneck"} : ~Ran(a)

====
